---- MODULE Spec2Model ----
(***************************************************************************)
(* LoomIQ task orchestrator (database-backed TaskOrchestrator), its        *)
(* background task processor, the retry loop of single-agent execution,    *)
(* collaborative execution through the CollaborationManager and the        *)
(* session:completed / session:failed callbacks.                           *)
(*                                                                         *)
(* Every `await` of the TypeScript source is a point where other           *)
(* callbacks may run.  One action of the model is the code that runs from  *)
(* the resumption of one await to the suspension at the next one.  An      *)
(* awaited database operation takes effect when its await resumes.         *)
(* Database operations and the synchronous registry calls do not fail.     *)
(***************************************************************************)
EXTENDS Integers, Sequences, FiniteSets, TLC

(***************************************************************************)
(* Bounds of the model                                                     *)
(***************************************************************************)
MaxTasks == 2            \* task ids; the scheduler is explored on up to this many tasks
MaxDirectTasks == 1      \* tasks created where direct executeTask calls are explored
NumAgents == 2           \* agents registered at start-up (index.ts registers two)
MaxHandlers == 1         \* callbacks of one session event in flight at once
ExecsPerTask == 2        \* executeTask calls per task id the state can hold
MaxSessions == 1         \* sessions the CollaborationManager is explored on
MaxCalls == 2            \* executeCollaborationSession calls in flight at once
MaxCollabAgents == 3     \* agents registered where the manager is explored
MaxQueue == 3            \* tasks the in-memory task queue is explored on
MaxUpdates == 1          \* updateTask calls per task

(***************************************************************************)
(* Program constants                                                       *)
(***************************************************************************)
maxAttempts == 3
baseDelayMs == 1000
maxDelayMs == 30000
backoffFactor == 2
MAX_CONCURRENT_TASKS == 1    \* process.env.MAX_CONCURRENT_TASKS as configured here

TaskIds == 1..MaxTasks
Slots == 1..ExecsPerTask
NoTask == [status |-> "absent"]
None == "none"
Nothing == <<>>          \* an output, error or response that is not set

Keywords == {"review", "validate", "compare", "multiple perspectives",
             "complex", "comprehensive", "end-to-end", "integrate",
             "coordinate", "collaborate", "multiple agents", "cross-functional",
             "full stack"}

(***************************************************************************)
(* A description is modelled by the set of its words as written; the      *)
(* empty description has none.  context is the set of flags of             *)
(* params.context that are set.  The inputs createTask is tried on:        *)
(***************************************************************************)
TaskInputs ==
    { [type |-> "implementation", priority |-> "medium",
       words |-> {"fix"}, context |-> {}],
      [type |-> "implementation", priority |-> "medium",
       words |-> {"review"}, context |-> {}],
      [type |-> "implementation", priority |-> "critical",
       words |-> {"fix"}, context |-> {}] }

DepInputs == {{}} \cup {{d} : d \in TaskIds}

VARIABLES
    tasks,           \* db.tasks: task id -> row, NoTask when no row exists
    runningTasks,    \* key set of TaskOrchestrator.runningTasks
    executionLock,   \* TaskOrchestrator.executionLock
    exec,            \* exec[t][k]: the k-th executeTask(t) call in flight
    sessions,        \* sessions[t][k]: the session of call exec[t][k], kept while
                     \* the call is in flight
    handlers,        \* session:completed / session:failed callbacks in flight
    pass,            \* the processPendingTasks call in flight
    nAgents,         \* number of agents in the registry
    maxConcurrent,   \* the ceiling processPendingTasks reads from
                     \* process.env.MAX_CONCURRENT_TASKS
    returned,        \* what executeTask calls return in the current step
    cmSessions,      \* CollaborationManager.sessions in full: id -> session
    cmCalls,         \* executeCollaborationSession calls in flight
    cmOut,           \* what the manager emits, returns and throws in the
                     \* current step
    taskQueue,       \* taskQueue of the in-memory TaskOrchestrator
    pendingTasks,    \* the pending tasks its processPendingTasks call in
                     \* flight has still to execute, the first one executing
    taskObjects      \* its Task objects, by task id: the object this.tasks
                     \* maps the id to, the status of the copy updateTask
                     \* made, and the object the executeTask call in flight
                     \* holds

cmVars == <<cmSessions, cmCalls, cmOut>>

queueVars == <<taskQueue, pendingTasks, taskObjects>>

vars == <<tasks, runningTasks, executionLock, exec, sessions, handlers, pass,
          nAgents, maxConcurrent, returned, cmVars, queueVars>>

Min(a, b) == IF a <= b THEN a ELSE b

RECURSIVE Pow(_, _)
Pow(b, e) == IF e = 0 THEN 1 ELSE b * Pow(b, e - 1)

(***************************************************************************)
(* retryDelay(attempt)                                                     *)
(***************************************************************************)
retryDelay_NextExponent(attempt) ==
    Min(baseDelayMs * Pow(backoffFactor, attempt + 1), maxDelayMs)

retryDelay(attempt) ==
    Min(baseDelayMs * Pow(backoffFactor, attempt), maxDelayMs)

(***************************************************************************)
(* requiresCollaboration(task), determineCollaborationStrategy(task)       *)
(***************************************************************************)
toLowerCase(w) ==
    CASE w = "Review" -> "review"
      [] w = "INTEGRATE" -> "integrate"
      [] w = "Architecture" -> "architecture"
      [] OTHER -> w

LowerCased(words) == {toLowerCase(w) : w \in words}

requiresCollaboration_HighAlone(task) ==
    LowerCased(task.words) \cap Keywords # {}
    \/ task.priority \in {"critical", "high"}

requiresCollaboration(task) ==
    LET desc == LowerCased(task.words)
        hasKeyword == desc \cap Keywords # {}
        isHighPriority == task.priority = "critical"
                          \/ (task.priority = "high" /\ hasKeyword)
    IN  isHighPriority \/ hasKeyword

determineCollaborationStrategy(task) ==
    LET desc == LowerCased(task.words)
    IN
    IF task.type = "design" \/ "architecture" \in desc THEN "consensus"
    ELSE IF "frontend" \in desc /\ "backend" \in desc THEN "parallel"
    ELSE IF task.priority = "critical" THEN "hierarchical"
    ELSE "sequential"

(***************************************************************************)
(* AgentRegistry: the ranked candidates for a task, best first.  Agents    *)
(* are numbered by rank; every registered agent is a candidate.            *)
(***************************************************************************)
findBestAgentForTask_Padded(n) == [i \in 1..(n + 1) |-> i]

findBestAgentForTask(n) == [i \in 1..n |-> i]

getAvailableAgents(n, idle) == IF idle THEN 1..n ELSE {}

(***************************************************************************)
(* CollaborationManager.selectAgentsForTask                                *)
(***************************************************************************)
selectAgentsForTask_NoCap(n, strategy) == findBestAgentForTask(n)

selectAgentsForTask(n, strategy) ==
    LET numAgents == IF strategy = "consensus" THEN 3 ELSE 2
        agentScores == findBestAgentForTask(n)
    IN  SubSeq(agentScores, 1, Min(numAgents, Len(agentScores)))

IdleExec == [pc |-> "idle", origin |-> None, useCollaboration |-> FALSE,
             attempt |-> 0, calls |-> 0, lastError |-> Nothing,
             delays |-> <<>>, response |-> Nothing]

NoSession == [status |-> None, strategy |-> None, agents |-> <<>>,
              step |-> 0, results |-> 0]

IdlePass == [pc |-> "idle", queue |-> <<>>]

SessionIds == 1..MaxSessions
QueueIds == 1..MaxQueue

\* createTask puts one object into this.tasks and into taskQueue ("queue");
\* updateTask puts a copy of the mapped object into this.tasks ("copy")
NoObjects == [map |-> None, copy |-> None, executing |-> None]
CallIds == 1..MaxCalls

NoCmSession == [status |-> "absent"]

IdleCall == [pc |-> "idle", session |-> 0, i |-> 0, results |-> <<>>,
             previousResult |-> Nothing, analyses |-> <<>>,
             requests |-> <<>>, pending |-> {}, settled |-> <<>>,
             task |-> [id |-> 0, description |-> None]]

InFlight(t) == {k \in Slots : exec[t][k].pc # "idle"}

Init ==
    /\ tasks = [t \in TaskIds |-> NoTask]
    /\ runningTasks = {}
    /\ executionLock = {}
    /\ exec = [t \in TaskIds |-> [k \in Slots |-> IdleExec]]
    /\ sessions = [t \in TaskIds |-> [k \in Slots |-> NoSession]]
    /\ handlers = {}
    /\ pass = IdlePass
    /\ nAgents \in 0..NumAgents
    /\ maxConcurrent = MAX_CONCURRENT_TASKS
    /\ returned = {}
    /\ cmSessions = [s \in SessionIds |-> NoCmSession]
    /\ cmCalls = [c \in CallIds |-> IdleCall]
    /\ cmOut = {}
    /\ taskQueue = <<>>
    /\ pendingTasks = <<>>
    /\ taskObjects = [id \in QueueIds |-> NoObjects]

(***************************************************************************)
(* TaskRepository.updateTaskStatus: status always, the other fields only   *)
(* when given.  A row that does not exist is not created.                  *)
(***************************************************************************)
updateTaskStatus(db, t, status, updates) ==
    IF db[t] = NoTask THEN db
    ELSE [db EXCEPT ![t] =
            [f \in DOMAIN db[t] |->
                IF f = "status" THEN status
                ELSE IF f \in DOMAIN updates THEN updates[f]
                ELSE db[t][f]]]

NoUpdates == [x \in {} |-> None]

(***************************************************************************)
(* createTask: a fresh id, status pending                                  *)
(***************************************************************************)
CreateTask(in, deps) ==
    /\ \E t \in TaskIds :
        /\ tasks[t] = NoTask
        /\ \A u \in TaskIds : u < t => tasks[u] # NoTask
        /\ tasks' = [tasks EXCEPT ![t] =
                        [status |-> "pending", type |-> in.type,
                         priority |-> in.priority, words |-> in.words,
                         dependencies |-> deps, output |-> Nothing,
                         error |-> Nothing, metadata |-> in.context]]
    /\ returned' = {}
    /\ UNCHANGED <<runningTasks, executionLock, exec, sessions,
                   handlers, pass, nAgents, maxConcurrent, cmVars, queueVars>>

(***************************************************************************)
(* executeTask, up to its first await.  st carries the execution-lock set, *)
(* the calls in flight and the last return, so that the scheduling pass    *)
(* can make several calls in one synchronous stretch.                      *)
(***************************************************************************)
AlreadyExecuting_NoLock(lock, running, t) == t \in running

AlreadyExecuting(lock, running, t) == t \in lock \/ t \in running

FreeSlot(ex, t) == {k \in Slots : ex[t][k].pc = "idle"}

executeTaskSync(st, running, t, useCollaboration, origin) ==
    IF AlreadyExecuting(st.lock, running, t) \/ FreeSlot(st.exec, t) = {}
    THEN [st EXCEPT !.ret = st.ret \cup {[task |-> t, value |-> "null"]}]
    ELSE LET k == CHOOSE k \in FreeSlot(st.exec, t) :
                      \A j \in FreeSlot(st.exec, t) : k <= j
         IN  [lock |-> st.lock \cup {t},
              exec |-> [st.exec EXCEPT ![t][k] =
                          [IdleExec EXCEPT !.pc = "find", !.origin = origin,
                                           !.useCollaboration = useCollaboration]],
              ret  |-> st.ret]

Now == [lock |-> executionLock, exec |-> exec, ret |-> {}]

(***************************************************************************)
(* A direct call of executeTask (POST /api/tasks, or any other caller)     *)
(***************************************************************************)
ExecuteTask(t, useCollaboration) ==
    LET st == executeTaskSync(Now, runningTasks, t, useCollaboration, "direct")
    IN  /\ executionLock' = st.lock
        /\ exec' = st.exec
        /\ returned' = st.ret
        /\ UNCHANGED <<tasks, runningTasks, sessions, handlers, pass,
                       nAgents, maxConcurrent, cmVars, queueVars>>

(***************************************************************************)
(* The finally block of executeTask: the call returns or throws            *)
(***************************************************************************)
ReleaseLock_Never(lock, t) == lock

ReleaseLock(lock, t) == lock \ {t}

Finish(t, k, value) ==
    /\ exec' = [exec EXCEPT ![t][k] = IdleExec]
    /\ sessions' = [sessions EXCEPT ![t][k] = NoSession]
    /\ executionLock' = ReleaseLock(executionLock, t)
    /\ returned' = {[task |-> t, value |-> value]}

Goto(t, k, pc) == exec' = [exec EXCEPT ![t][k].pc = pc]

Continue(t, k, pc) ==
    /\ Goto(t, k, pc)
    /\ returned' = {}
    /\ UNCHANGED <<executionLock, sessions>>

(***************************************************************************)
(* executeTask after db.tasks.findById, and the synchronous head of        *)
(* executeTaskWithRetry                                                    *)
(***************************************************************************)
ExecFindTask(t, k) ==
    /\ exec[t][k].pc = "find"
    /\ IF tasks[t] = NoTask
       THEN Finish(t, k, "throw: Task not found")
       ELSE IF exec[t][k].useCollaboration \/ requiresCollaboration(tasks[t])
       THEN Continue(t, k, "c_inprog")
       ELSE IF Len(findBestAgentForTask(nAgents)) = 0
       THEN Finish(t, k, "throw: No suitable agent found")
       ELSE Continue(t, k, "r_assign")
    /\ UNCHANGED <<tasks, runningTasks, handlers, pass,
                   nAgents, maxConcurrent, cmVars, queueVars>>

(***************************************************************************)
(* executeTaskWithRetry                                                    *)
(***************************************************************************)
RetryAssign(t, k) ==
    /\ exec[t][k].pc = "r_assign"
    /\ tasks' = updateTaskStatus(tasks, t, "assigned", NoUpdates)
    /\ Goto(t, k, "r_meta")
    /\ returned' = {}
    /\ UNCHANGED <<runningTasks, executionLock, sessions, handlers,
                   pass, nAgents, maxConcurrent, cmVars, queueVars>>

RetryMetadata(t, k) ==
    /\ exec[t][k].pc = "r_meta"
    /\ runningTasks' = runningTasks \cup {t}
    /\ exec' = [exec EXCEPT ![t][k].pc = "r_inprog", ![t][k].attempt = 0]
    /\ returned' = {}
    /\ UNCHANGED <<tasks, executionLock, sessions, handlers, pass,
                   nAgents, maxConcurrent, cmVars, queueVars>>

RetryInProgress(t, k) ==
    /\ exec[t][k].pc = "r_inprog"
    /\ tasks' = updateTaskStatus(tasks, t, "in_progress", NoUpdates)
    /\ exec' = [exec EXCEPT ![t][k].pc = "r_call",
                            ![t][k].calls = exec[t][k].calls + 1]
    /\ returned' = {}
    /\ UNCHANGED <<runningTasks, executionLock, sessions, handlers,
                   pass, nAgents, maxConcurrent, cmVars, queueVars>>

AgentOutcomes == {"success", "failure", "throw"}

MoreAttempts_OneTooMany(attempt) == attempt < maxAttempts

MoreAttempts(attempt) == attempt < maxAttempts - 1

RetryAfterFailure(e, err) ==
    IF MoreAttempts(e.attempt)
    THEN [e EXCEPT !.lastError = err, !.pc = "r_reset"]
    ELSE [e EXCEPT !.lastError = err, !.pc = "r_fail"]

RetryAgentReturns(t, k, outcome) ==
    /\ exec[t][k].pc = "r_call"
    /\ LET e == exec[t][k]
       IN  exec' = [exec EXCEPT ![t][k] =
             IF outcome = "success"
             THEN [e EXCEPT !.pc = "r_commit",
                            !.response = <<"result", e.attempt>>]
             ELSE RetryAfterFailure(e, <<"error", e.attempt>>)]
    /\ returned' = {}
    /\ UNCHANGED <<tasks, runningTasks, executionLock, sessions,
                   handlers, pass, nAgents, maxConcurrent, cmVars, queueVars>>

RetryReset(t, k) ==
    /\ exec[t][k].pc = "r_reset"
    /\ tasks' = updateTaskStatus(tasks, t, "pending", NoUpdates)
    /\ exec' = [exec EXCEPT ![t][k].pc = "r_sleep",
                            ![t][k].delays =
                                Append(exec[t][k].delays,
                                       retryDelay(exec[t][k].attempt))]
    /\ returned' = {}
    /\ UNCHANGED <<runningTasks, executionLock, sessions, handlers,
                   pass, nAgents, maxConcurrent, cmVars, queueVars>>

RetrySleepOver(t, k) ==
    /\ exec[t][k].pc = "r_sleep"
    /\ exec' = [exec EXCEPT ![t][k].pc = "r_inprog",
                            ![t][k].attempt = exec[t][k].attempt + 1]
    /\ returned' = {}
    /\ UNCHANGED <<tasks, runningTasks, executionLock, sessions,
                   handlers, pass, nAgents, maxConcurrent, cmVars, queueVars>>

RetryCommit(t, k) ==
    /\ exec[t][k].pc = "r_commit"
    /\ tasks' = updateTaskStatus(tasks, t, "completed",
                                 [output |-> exec[t][k].response])
    /\ Goto(t, k, "r_done")
    /\ returned' = {}
    /\ UNCHANGED <<runningTasks, executionLock, sessions, handlers,
                   pass, nAgents, maxConcurrent, cmVars, queueVars>>

RetryDone(t, k) ==
    /\ exec[t][k].pc = "r_done"
    /\ Finish(t, k, "response")
    /\ UNCHANGED <<tasks, runningTasks, handlers, pass,
                   nAgents, maxConcurrent, cmVars, queueVars>>

RetryFail(t, k) ==
    /\ exec[t][k].pc = "r_fail"
    /\ tasks' = updateTaskStatus(tasks, t, "failed",
                                 [error |-> exec[t][k].lastError])
    /\ Goto(t, k, "r_faildone")
    /\ returned' = {}
    /\ UNCHANGED <<runningTasks, executionLock, sessions, handlers,
                   pass, nAgents, maxConcurrent, cmVars, queueVars>>

RetryFailDone(t, k) ==
    /\ exec[t][k].pc = "r_faildone"
    /\ runningTasks' = runningTasks \ {t}
    /\ Finish(t, k, "failure result")
    /\ UNCHANGED <<tasks, handlers, pass,
                   nAgents, maxConcurrent, cmVars, queueVars>>

(***************************************************************************)
(* executeTaskWithCollaboration and the CollaborationManager               *)
(***************************************************************************)
KnownStrategies == {"sequential", "parallel", "consensus"}

\* agent calls a strategy makes: one per agent, and the lead's synthesis call
\* in consensus
StrategySteps(s) ==
    Len(s.agents) + (IF s.strategy = "consensus" THEN 1 ELSE 0)

Handler(t, kind, results, error) ==
    [task |-> t, kind |-> kind, pc |-> "find", results |-> results,
     error |-> error]

\* a callback of an event can start while fewer than MaxHandlers callbacks
\* of that event are in flight
CanSpawnHandler(kind) ==
    Cardinality({h \in handlers : h.kind = kind}) < MaxHandlers

\* updateTaskStatus(in_progress), then createCollaborationSession
CollabInProgress(t, k) ==
    /\ exec[t][k].pc = "c_inprog"
    /\ tasks' = updateTaskStatus(tasks, t, "in_progress", NoUpdates)
    /\ LET strategy == determineCollaborationStrategy(tasks[t])
           selectedAgents == selectAgentsForTask(nAgents, strategy)
       IN  IF Len(selectedAgents) < 2
           THEN /\ exec' = [exec EXCEPT ![t][k].pc = "c_fail",
                      ![t][k].lastError =
                          <<"Need at least 2 agents for collaboration">>]
                /\ UNCHANGED sessions
           ELSE /\ Goto(t, k, "c_meta")
                /\ sessions' = [sessions EXCEPT ![t][k] =
                      [status |-> "planning", strategy |-> strategy,
                       agents |-> selectedAgents, step |-> 0, results |-> 0]]
    /\ returned' = {}
    /\ UNCHANGED <<runningTasks, executionLock, handlers, pass,
                   nAgents, maxConcurrent, cmVars, queueVars>>

\* db.tasks.update(metadata) is done; executeCollaborationSession starts
CollabStart(t, k) ==
    /\ exec[t][k].pc = "c_meta"
    /\ IF sessions[t][k].strategy \in KnownStrategies
       THEN /\ sessions' = [sessions EXCEPT ![t][k].status = "executing",
                                            ![t][k].step = 1]
            /\ Goto(t, k, "c_run")
            /\ UNCHANGED handlers
       ELSE /\ CanSpawnHandler("failed")
            /\ sessions' = [sessions EXCEPT ![t][k].status = "failed"]
            /\ handlers' = handlers \cup
                  {Handler(t, "failed", 0, <<"Unknown strategy">>)}
            /\ exec' = [exec EXCEPT ![t][k].pc = "c_fail",
                                    ![t][k].lastError = <<"Unknown strategy">>]
    /\ returned' = {}
    /\ UNCHANGED <<tasks, runningTasks, executionLock, pass,
                   nAgents, maxConcurrent, cmVars, queueVars>>

\* an agent call of the running strategy returns or throws
CollabAgentReturns(t, k, outcome) ==
    /\ exec[t][k].pc = "c_run"
    /\ LET s == sessions[t][k]
           n == s.results + (IF outcome = "success" THEN 1 ELSE 0)
       IN  IF outcome = "throw"
           THEN /\ CanSpawnHandler("failed")
                /\ sessions' = [sessions EXCEPT ![t][k].status = "failed"]
                /\ handlers' = handlers \cup
                      {Handler(t, "failed", 0, <<"agent error">>)}
                /\ exec' = [exec EXCEPT ![t][k].pc = "c_fail",
                                        ![t][k].lastError = <<"agent error">>]
           ELSE IF s.step < StrategySteps(s)
           THEN /\ sessions' = [sessions EXCEPT ![t][k].step = s.step + 1,
                                                ![t][k].results = n]
                /\ UNCHANGED <<exec, handlers>>
           ELSE /\ CanSpawnHandler("completed")
                /\ sessions' = [sessions EXCEPT ![t][k].status = "completed",
                                                ![t][k].results = n]
                /\ handlers' = handlers \cup
                      {Handler(t, "completed", n, Nothing)}
                /\ exec' = [exec EXCEPT ![t][k].pc = "c_commit",
                                        ![t][k].response = <<"synthesized">>]
    /\ returned' = {}
    /\ UNCHANGED <<tasks, runningTasks, executionLock, pass,
                   nAgents, maxConcurrent, cmVars, queueVars>>

CollabCommit(t, k) ==
    /\ exec[t][k].pc = "c_commit"
    /\ tasks' = updateTaskStatus(tasks, t, "completed",
                                 [output |-> exec[t][k].response])
    /\ Goto(t, k, "c_done")
    /\ returned' = {}
    /\ UNCHANGED <<runningTasks, executionLock, sessions, handlers,
                   pass, nAgents, maxConcurrent, cmVars, queueVars>>

CollabDone(t, k) ==
    /\ exec[t][k].pc = "c_done"
    /\ runningTasks' = runningTasks \ {t}
    /\ Finish(t, k, "collaboration result")
    /\ UNCHANGED <<tasks, handlers, pass,
                   nAgents, maxConcurrent, cmVars, queueVars>>

CollabFail(t, k) ==
    /\ exec[t][k].pc = "c_fail"
    /\ tasks' = updateTaskStatus(tasks, t, "failed",
                                 [error |-> exec[t][k].lastError])
    /\ Goto(t, k, "c_faildone")
    /\ returned' = {}
    /\ UNCHANGED <<runningTasks, executionLock, sessions, handlers,
                   pass, nAgents, maxConcurrent, cmVars, queueVars>>

CollabFailDone(t, k) ==
    /\ exec[t][k].pc = "c_faildone"
    /\ runningTasks' = runningTasks \ {t}
    /\ Finish(t, k, "collaboration failure result")
    /\ UNCHANGED <<tasks, handlers, pass,
                   nAgents, maxConcurrent, cmVars, queueVars>>

(***************************************************************************)
(* setupCollaborationHandlers: the session:completed and session:failed    *)
(* callbacks, each an async function of three awaits                       *)
(***************************************************************************)
HandlerFind(h) ==
    /\ h \in handlers
    /\ h.pc = "find"
    /\ IF tasks[h.task] # NoTask /\ (h.kind = "failed" \/ h.results > 0)
       THEN handlers' = (handlers \ {h}) \cup {[h EXCEPT !.pc = "write"]}
       ELSE handlers' = handlers \ {h}
    /\ returned' = {}
    /\ UNCHANGED <<tasks, runningTasks, executionLock, exec,
                   sessions, pass, nAgents, maxConcurrent, cmVars, queueVars>>

HandlerWrite(h) ==
    /\ h \in handlers
    /\ h.pc = "write"
    /\ tasks' = IF h.kind = "completed"
                THEN updateTaskStatus(tasks, h.task, "completed",
                                      [output |-> <<"raw">>])
                ELSE updateTaskStatus(tasks, h.task, "failed",
                                      [error |-> h.error])
    /\ handlers' = (handlers \ {h}) \cup {[h EXCEPT !.pc = "read"]}
    /\ returned' = {}
    /\ UNCHANGED <<runningTasks, executionLock, exec, sessions,
                   pass, nAgents, maxConcurrent, cmVars, queueVars>>

HandlerDone(h) ==
    /\ h \in handlers
    /\ h.pc = "read"
    /\ handlers' = handlers \ {h}
    /\ returned' = {}
    /\ UNCHANGED <<tasks, runningTasks, executionLock, exec,
                   sessions, pass, nAgents, maxConcurrent, cmVars, queueVars>>

(***************************************************************************)
(* The terminal events the orchestrator emits in the current step: the     *)
(* last step of executeTaskWithRetry and of executeTaskWithCollaboration   *)
(* emits one after its findById, and so does the last step of a session    *)
(* callback.                                                               *)
(***************************************************************************)
TerminalEvent(pc) ==
    CASE pc = "r_done" -> "task:completed"
      [] pc = "r_faildone" -> "task:failed"
      [] pc = "c_done" -> "task:completed"
      [] pc = "c_faildone" -> "task:error"

Emitted ==
    { [name |-> TerminalEvent(exec[x[1]][x[2]].pc), task |-> x[1],
       from |-> "executeTask"] :
         x \in {y \in TaskIds \X Slots :
                  /\ exec[y[1]][y[2]].pc
                        \in {"r_done", "r_faildone", "c_done", "c_faildone"}
                  /\ exec'[y[1]][y[2]].pc = "idle"} }
    \cup
    { [name |-> IF h.kind = "completed" THEN "task:completed"
                ELSE "task:failed",
       task |-> h.task, from |-> "callback"] :
         h \in {g \in handlers \ handlers' : g.pc = "read"} }

(***************************************************************************)
(* TaskRepository.findPendingTasks: the pending rows by priority, then by  *)
(* creation time (ids are handed out in creation order)                    *)
(***************************************************************************)
PriorityRank(p) ==
    CASE p = "critical" -> 0 [] p = "high" -> 1 [] p = "medium" -> 2
      [] p = "low" -> 3

Before(db, a, b) ==
    \/ PriorityRank(db[a].priority) < PriorityRank(db[b].priority)
    \/ /\ PriorityRank(db[a].priority) = PriorityRank(db[b].priority)
       /\ a < b

findPendingTasks(db) ==
    LET P == {t \in TaskIds : db[t] # NoTask /\ db[t].status = "pending"}
    IN  CHOOSE q \in [1..Cardinality(P) -> P] :
            \A i, j \in 1..Cardinality(P) : i < j => Before(db, q[i], q[j])

(***************************************************************************)
(* processPendingTasks                                                     *)
(***************************************************************************)
DependenciesCompleted_Unchecked(db, t) == TRUE

DependenciesCompleted(db, t) ==
    \A d \in db[t].dependencies : db[d] # NoTask /\ db[d].status = "completed"

AtCapacity(running) == Cardinality(running) >= maxConcurrent

MustSkip_Never(lock, running, t) == FALSE

MustSkip(lock, running, t) == t \in lock \/ t \in running

\* the for loop from the task at the head of q up to its next await (the
\* dependency lookups of a task that has dependencies) or its end
RECURSIVE RunLoop(_, _)
RunLoop(q, st) ==
    IF q = <<>> \/ AtCapacity(runningTasks)
    THEN [st |-> st, pass |-> IdlePass]
    ELSE LET t == Head(q)
         IN  IF MustSkip(st.lock, runningTasks, t)
             THEN RunLoop(Tail(q), st)
             ELSE IF tasks[t].dependencies # {}
             THEN [st |-> st, pass |-> [pc |-> "deps", queue |-> q]]
             ELSE RunLoop(Tail(q),
                          executeTaskSync(st, runningTasks, t, FALSE,
                                          "scheduler"))

Resume(r) ==
    /\ pass' = r.pass
    /\ executionLock' = r.st.lock
    /\ exec' = r.st.exec
    /\ returned' = r.st.ret

\* the interval timer fires; some agent is available and the running count
\* is below the ceiling, so the pass goes on to read the pending tasks
PassStart ==
    /\ pass.pc = "idle"
    /\ \E idle \in BOOLEAN : getAvailableAgents(nAgents, idle) # {}
    /\ ~AtCapacity(runningTasks)
    /\ pass' = [pc |-> "list", queue |-> <<>>]
    /\ returned' = {}
    /\ UNCHANGED <<tasks, runningTasks, executionLock, exec,
                   sessions, handlers, nAgents, maxConcurrent, cmVars, queueVars>>

PassList ==
    /\ pass.pc = "list"
    /\ Resume(RunLoop(findPendingTasks(tasks), Now))
    /\ UNCHANGED <<tasks, runningTasks, sessions, handlers,
                   nAgents, maxConcurrent, cmVars, queueVars>>

\* the dependency lookups of the task at the head of the queue are back
PassDependencies ==
    /\ pass.pc = "deps"
    /\ LET t == Head(pass.queue)
       IN  IF DependenciesCompleted(tasks, t)
           THEN Resume(RunLoop(Tail(pass.queue),
                               executeTaskSync(Now, runningTasks, t, FALSE,
                                               "scheduler")))
           ELSE Resume(RunLoop(Tail(pass.queue), Now))
    /\ UNCHANGED <<tasks, runningTasks, sessions, handlers,
                   nAgents, maxConcurrent, cmVars, queueVars>>

(***************************************************************************)
(* The orchestrator                                                        *)
(***************************************************************************)
\* the continuations of executeTask and executeTaskWithRetry
RetryStep(t, k) ==
    \/ ExecFindTask(t, k)
    \/ RetryAssign(t, k)
    \/ RetryMetadata(t, k)
    \/ RetryInProgress(t, k)
    \/ \E o \in AgentOutcomes : RetryAgentReturns(t, k, o)
    \/ RetryReset(t, k)
    \/ RetrySleepOver(t, k)
    \/ RetryCommit(t, k)
    \/ RetryDone(t, k)
    \/ RetryFail(t, k)
    \/ RetryFailDone(t, k)

ExecStep(t, k) ==
    \/ RetryStep(t, k)
    \/ CollabInProgress(t, k)
    \/ CollabStart(t, k)
    \/ \E o \in AgentOutcomes : CollabAgentReturns(t, k, o)
    \/ CollabCommit(t, k)
    \/ CollabDone(t, k)
    \/ CollabFail(t, k)
    \/ CollabFailDone(t, k)

Created == {t \in TaskIds : tasks[t] # NoTask}

\* createTask while fewer than MaxDirectTasks tasks exist
CreateFirstTasks(in, deps) ==
    /\ Cardinality(Created) < MaxDirectTasks
    /\ CreateTask(in, deps)

Next ==
    \/ \E in \in TaskInputs, deps \in DepInputs : CreateFirstTasks(in, deps)
    \/ \E t \in TaskIds, c \in BOOLEAN : ExecuteTask(t, c)
    \/ \E t \in TaskIds, k \in Slots : ExecStep(t, k)
    \/ \E h \in handlers : HandlerFind(h) \/ HandlerWrite(h) \/ HandlerDone(h)
    \/ PassStart
    \/ PassList
    \/ PassDependencies

Spec == Init /\ [][Next]_vars

(***************************************************************************)
(* The orchestrator as the HTTP server drives it: tasks are created by     *)
(* createTask or by POST /api/tasks, which creates a task without          *)
(* dependencies and calls executeTask on it at once; every other           *)
(* executeTask call comes from the task processor.                         *)
(***************************************************************************)
SchedInputs == {in \in TaskInputs : in.priority # "critical"}

PostTask(in, useCollaboration) ==
    /\ \E t \in TaskIds :
        /\ tasks[t] = NoTask
        /\ \A u \in TaskIds : u < t => tasks[u] # NoTask
        /\ tasks' = [tasks EXCEPT ![t] =
                        [status |-> "pending", type |-> in.type,
                         priority |-> in.priority, words |-> in.words,
                         dependencies |-> {}, output |-> Nothing,
                         error |-> Nothing, metadata |-> in.context]]
        /\ LET st == executeTaskSync(Now, runningTasks, t, useCollaboration,
                                     "direct")
           IN  /\ executionLock' = st.lock
               /\ exec' = st.exec
               /\ returned' = st.ret
    /\ UNCHANGED <<runningTasks, sessions, handlers, pass,
                   nAgents, maxConcurrent, cmVars, queueVars>>

NextSched ==
    \/ \E in \in SchedInputs, deps \in DepInputs : CreateTask(in, deps)
    \/ \E in \in SchedInputs, c \in BOOLEAN : PostTask(in, c)
    \/ \E t \in TaskIds, k \in Slots : ExecStep(t, k)
    \/ \E h \in handlers : HandlerFind(h) \/ HandlerWrite(h) \/ HandlerDone(h)
    \/ PassStart
    \/ PassList
    \/ PassDependencies

SpecSched == Init /\ [][NextSched]_vars

(***************************************************************************)
(* The task processor alone: tasks that one agent executes are created,    *)
(* with or without a dependency, and only the scheduling passes call       *)
(* executeTask.  The ceiling is what the environment sets it to.           *)
(***************************************************************************)
MaxCeiling == 2

PlainInput ==
    [type |-> "implementation", priority |-> "medium", words |-> {"fix"},
     context |-> {}]

InitPass ==
    /\ tasks = [t \in TaskIds |-> NoTask]
    /\ runningTasks = {}
    /\ executionLock = {}
    /\ exec = [t \in TaskIds |-> [k \in Slots |-> IdleExec]]
    /\ sessions = [t \in TaskIds |-> [k \in Slots |-> NoSession]]
    /\ handlers = {}
    /\ pass = IdlePass
    /\ nAgents = 1
    /\ maxConcurrent \in 1..MaxCeiling
    /\ returned = {}
    /\ cmSessions = [s \in SessionIds |-> NoCmSession]
    /\ cmCalls = [c \in CallIds |-> IdleCall]
    /\ cmOut = {}
    /\ taskQueue = <<>>
    /\ pendingTasks = <<>>
    /\ taskObjects = [id \in QueueIds |-> NoObjects]

NextPass ==
    \/ \E deps \in DepInputs : CreateTask(PlainInput, deps)
    \/ \E t \in TaskIds, k \in Slots : RetryStep(t, k)
    \/ PassStart
    \/ PassList
    \/ PassDependencies

SpecPass == InitPass /\ [][NextPass]_vars

\* the interval timer keeps firing, every await of a pass and of an
\* execution settles
SpecPassFair ==
    /\ SpecPass
    /\ WF_vars(PassStart)
    /\ WF_vars(PassList)
    /\ WF_vars(PassDependencies)
    /\ \A t \in TaskIds, k \in Slots : WF_vars(RetryStep(t, k))

(***************************************************************************)
(* The routing of executeTask: one task of any shape is created and        *)
(* executeTask is called on it once, with either value of                  *)
(* forceCollaboration.                                                     *)
(***************************************************************************)
RouteInputs ==
    [type : {"implementation", "design"},
     priority : {"medium", "high", "critical"},
     words : {{}, {"fix"}, {"Review"}, {"comprehensive"}, {"INTEGRATE"},
              {"review", "Architecture"}, {"review", "frontend", "backend"}},
     context : {{}, {"useCollaboration"}}]

CreateRouteTask(in) ==
    /\ Created = {}
    /\ CreateTask(in, {})

ExecuteFirst(t, useCollaboration) ==
    /\ tasks[t] # NoTask
    /\ tasks[t].status = "pending"
    /\ InFlight(t) = {}
    /\ t \notin runningTasks
    /\ ExecuteTask(t, useCollaboration)

NextRoute ==
    \/ \E in \in RouteInputs : CreateRouteTask(in)
    \/ \E t \in TaskIds, c \in BOOLEAN : ExecuteFirst(t, c)
    \/ \E t \in TaskIds, k \in Slots : ExecStep(t, k)
    \/ \E h \in handlers : HandlerFind(h) \/ HandlerWrite(h) \/ HandlerDone(h)

SpecRoute == Init /\ [][NextRoute]_vars

\* the same program with its scheduling: the event loop resumes every
\* continuation whose await has settled, every agent call returns and every
\* backoff timer fires
SpecRouteFair ==
    /\ SpecRoute
    /\ \A t \in TaskIds, k \in Slots : WF_vars(ExecStep(t, k))
    /\ WF_vars(\E h \in handlers :
                    HandlerFind(h) \/ HandlerWrite(h) \/ HandlerDone(h))

(***************************************************************************)
(* The task queue of the in-memory TaskOrchestrator: createTask pushes the *)
(* task and sorts the queue; processPendingTasks filters the pending tasks *)
(* out of the queue and executes them one after the other, awaiting each   *)
(* executeTask.  A task is its creation rank, its priority and its status; *)
(* the tasks here have no dependencies and need no collaboration.          *)
(***************************************************************************)
Priorities == {"critical", "high", "medium", "low"}

priorityOrder(p) ==
    CASE p = "critical" -> 0 [] p = "high" -> 1 [] p = "medium" -> 2
      [] p = "low" -> 3

\* Array.prototype.sort with a comparator is stable: tasks of equal priority
\* keep the order they have in the array
sortTaskQueue_Unsorted(queue) == queue

sortTaskQueue(queue) ==
    LET Of(r) == SelectSeq(queue, LAMBDA task : priorityOrder(task.priority) = r)
    IN  Of(0) \o Of(1) \o Of(2) \o Of(3)

SetStatus(queue, id, status) ==
    [n \in DOMAIN queue |->
        IF queue[n].id = id THEN [queue[n] EXCEPT !.status = status]
        ELSE queue[n]]

QueueStatus(queue, id) ==
    (CHOOSE task \in {queue[n] : n \in DOMAIN queue} : task.id = id).status

\* the status of the object this.tasks maps id to
MapStatus(queue, objects, id) ==
    IF objects[id].map = "copy" THEN objects[id].copy
    ELSE QueueStatus(queue, id)

\* task.status = status on one object of task id
Write(st, id, object, status) ==
    IF object = "copy"
    THEN [st EXCEPT !.objects[id].copy = status]
    ELSE [st EXCEPT !.queue = SetStatus(st.queue, id, status)]

\* the for loop of processPendingTasks from the task at the head of pending
\* up to the await of the agent call of the first task this.tasks knows:
\* executeTask throws 'Task not found' for a task that is not in this.tasks,
\* the loop logs it and goes on; otherwise executeTask marks the mapped
\* object in_progress and calls the agent
RECURSIVE StartFirst(_, _)
StartFirst(st, pending) ==
    IF pending = <<>> THEN [st EXCEPT !.pending = <<>>]
    ELSE LET id == Head(pending).id
         IN  IF st.objects[id].map = None
             THEN StartFirst(
                     [st EXCEPT !.ret = st.ret \cup
                         {[task |-> id, value |-> "throw: Task not found"]}],
                     Tail(pending))
             ELSE [Write(st, id, st.objects[id].map, "in_progress")
                      EXCEPT !.pending = pending,
                             !.objects[id].executing = st.objects[id].map]

QueueNow ==
    [queue |-> taskQueue, objects |-> taskObjects, pending |-> pendingTasks,
     ret |-> {}]

QueueResume(st) ==
    /\ taskQueue' = st.queue
    /\ taskObjects' = st.objects
    /\ pendingTasks' = st.pending
    /\ returned' = st.ret

QueueCreateTask(priority) ==
    LET id == Len(taskQueue) + 1
    IN  /\ Len(taskQueue) < MaxQueue
        /\ taskQueue' = sortTaskQueue(Append(taskQueue,
                            [id |-> id, priority |-> priority,
                             status |-> "pending"]))
        /\ taskObjects' = [taskObjects EXCEPT ![id].map = "queue"]
        /\ returned' = {}
        /\ UNCHANGED <<pendingTasks, tasks, runningTasks, executionLock, exec,
                       sessions, handlers, pass, nAgents, maxConcurrent, cmVars>>

QueueProcessPendingTasks ==
    LET pending == SelectSeq(taskQueue, LAMBDA task : task.status = "pending")
    IN  /\ pendingTasks = <<>>
        /\ nAgents > 0
        /\ pending # <<>>
        /\ QueueResume(StartFirst(QueueNow, pending))
        /\ UNCHANGED <<tasks, runningTasks, executionLock, exec, sessions,
                       handlers, pass, nAgents, maxConcurrent, cmVars>>

\* the agent call of the executing task returns or throws: executeTask
\* writes the status to the object it holds, and the loop goes on to the
\* next task of the pass
QueueAgentReturns(outcome) ==
    /\ pendingTasks # <<>>
    /\ LET id == Head(pendingTasks).id
           done == [Write(QueueNow, id, taskObjects[id].executing,
                          IF outcome = "success" THEN "completed"
                          ELSE "failed")
                       EXCEPT !.objects[id].executing = None]
       IN  QueueResume(StartFirst(done, Tail(pendingTasks)))
    /\ UNCHANGED <<tasks, runningTasks, executionLock, exec, sessions,
                   handlers, pass, nAgents, maxConcurrent, cmVars>>

NextQueue ==
    \/ \E priority \in Priorities : QueueCreateTask(priority)
    \/ QueueProcessPendingTasks
    \/ \E o \in AgentOutcomes : QueueAgentReturns(o)

SpecQueue == Init /\ [][NextQueue]_vars

(***************************************************************************)
(* The in-memory TaskOrchestrator with updateTask and deleteTask.          *)
(* updateTask stores a copy of the task under its id and leaves the        *)
(* object in taskQueue as it is; deleteTask removes the id from this.tasks *)
(* and leaves taskQueue as it is.  The updates tried here change neither   *)
(* the status nor the priority.                                            *)
(***************************************************************************)
QueueUpdateTask(id) ==
    /\ taskObjects[id].map # None
    /\ taskObjects[id].copy = None
    /\ Cardinality({i \in QueueIds : taskObjects[i].copy # None}) < MaxUpdates
    /\ taskObjects' = [taskObjects EXCEPT
                          ![id].map = "copy",
                          ![id].copy = MapStatus(taskQueue, taskObjects, id)]
    /\ returned' = {}
    /\ UNCHANGED <<taskQueue, pendingTasks, tasks, runningTasks, executionLock,
                   exec, sessions, handlers, pass, nAgents, maxConcurrent, cmVars>>

QueueDeleteTask(id) ==
    /\ taskObjects[id].map # None
    /\ taskObjects' = [taskObjects EXCEPT ![id].map = None]
    /\ returned' = {}
    /\ UNCHANGED <<taskQueue, pendingTasks, tasks, runningTasks, executionLock,
                   exec, sessions, handlers, pass, nAgents, maxConcurrent, cmVars>>

NextTasks ==
    \/ \E priority \in {"medium", "high"} : QueueCreateTask(priority)
    \/ QueueProcessPendingTasks
    \/ \E o \in AgentOutcomes : QueueAgentReturns(o)
    \/ \E id \in QueueIds : QueueUpdateTask(id)
    \/ \E id \in QueueIds : QueueDeleteTask(id)

SpecTasks == Init /\ [][NextTasks]_vars

(***************************************************************************)
(* The CollaborationManager on its own, driven through its two public      *)
(* methods by any caller.  The registry knows every agent id it ranks, so  *)
(* the `agent not found` branches of the strategies are never taken.       *)
(* createCollaborationSession has one await, of selectAgentsForTask, which *)
(* reads the registry only; it is taken in one step.                       *)
(***************************************************************************)
StrategyInputs == KnownStrategies \cup {"hierarchical"}

\* the tasks createCollaborationSession is called on
CollabTasks == { [id |-> 1, description |-> "Review the API"],
                 [id |-> 2, description |-> "Add a login form"] }

\* CollaborationManager.getTask: a placeholder that fetches nothing
getTask(taskId) == [id |-> taskId, description |-> "Task description"]

orchVars == <<tasks, runningTasks, executionLock, exec, sessions, handlers,
              pass, nAgents, maxConcurrent, returned, queueVars>>

InitCollab ==
    /\ tasks = [t \in TaskIds |-> NoTask]
    /\ runningTasks = {}
    /\ executionLock = {}
    /\ exec = [t \in TaskIds |-> [k \in Slots |-> IdleExec]]
    /\ sessions = [t \in TaskIds |-> [k \in Slots |-> NoSession]]
    /\ handlers = {}
    /\ pass = IdlePass
    /\ nAgents \in 0..MaxCollabAgents
    /\ maxConcurrent = MAX_CONCURRENT_TASKS
    /\ returned = {}
    /\ cmSessions = [s \in SessionIds |-> NoCmSession]
    /\ cmCalls = [c \in CallIds |-> IdleCall]
    /\ cmOut = {}
    /\ taskQueue = <<>>
    /\ pendingTasks = <<>>
    /\ taskObjects = [id \in QueueIds |-> NoObjects]

\* an event emitted, a value returned or an error thrown by the manager
Out(kind, name, c, s, results) ==
    [kind |-> kind, name |-> name, call |-> c, session |-> s,
     results |-> results, agent |-> 0]

Emit(name, s) == Out("emit", name, 0, s, <<>>)

\* a step event: step:started carries step.assignedAgent, step:completed
\* the result's agentId
StepEvent(name, s, agent) == [Emit(name, s) EXCEPT !.agent = agent]

\* the AgentRequest a strategy hands to agent.execute
\* and the task description its prompt starts with
Request_NoContext(task, agent, mode, role, previousResult, analyses) ==
    [agent |-> agent, mode |-> mode, role |-> role,
     previousResult |-> Nothing, analyses |-> analyses,
     description |-> task.description]

Request(task, agent, mode, role, previousResult, analyses) ==
    [agent |-> agent, mode |-> mode, role |-> role,
     previousResult |-> previousResult, analyses |-> analyses,
     description |-> task.description]

\* response.result of the j-th agent call of an executeCollaborationSession
\* call, when that call succeeds
Output(agent, j) == <<"output", agent, j>>

\* a CollaborationResult; agentName is the agent's name and a suffix
Result(agent, suffix, output) ==
    [agentId |-> agent, agentName |-> [agent |-> agent, suffix |-> suffix],
     output |-> output]

FreeSessions == {s \in SessionIds : cmSessions[s] = NoCmSession}

\* a call that has returned or thrown stays on record until another call
\* takes its place
FreeCalls == {c \in CallIds : cmCalls[c].pc \in {"idle", "returned", "thrown"}}

First(S) == CHOOSE x \in S : \A y \in S : x <= y

createCollaborationSession(task, strategy) ==
    LET selectedAgents == selectAgentsForTask(nAgents, strategy)
        s == First(FreeSessions)
    IN  /\ FreeSessions # {}
        /\ IF Len(selectedAgents) < 2
           THEN /\ cmOut' = {Out("throw",
                                 "Need at least 2 agents for collaboration",
                                 0, 0, <<>>)}
                /\ UNCHANGED cmSessions
           ELSE /\ cmSessions' = [cmSessions EXCEPT ![s] =
                      [status |-> "planning", strategy |-> strategy,
                       agents |-> selectedAgents, results |-> <<>>,
                       taskId |-> task.id]]
                /\ cmOut' = {Emit("session:created", s),
                             Out("return", "session", 0, s, <<>>)}
        /\ UNCHANGED <<cmCalls, orchVars>>

\* executeCollaborationSession up to the first await of the strategy it
\* dispatches to; an unknown strategy throws inside the try block at once
executeCollaborationSession(s) ==
    LET c == First(FreeCalls)
    IN  /\ FreeCalls # {}
        /\ IF cmSessions[s] = NoCmSession
           THEN /\ cmOut' = {Out("throw", "Collaboration session not found",
                                 c, s, <<>>)}
                /\ UNCHANGED <<cmSessions, cmCalls>>
           ELSE IF cmSessions[s].strategy \in KnownStrategies
           THEN /\ cmSessions' = [cmSessions EXCEPT ![s].status = "executing"]
                /\ cmCalls' = [cmCalls EXCEPT ![c] =
                      [IdleCall EXCEPT !.pc = "getTask", !.session = s]]
                /\ cmOut' = {Emit("session:started", s)}
           ELSE /\ cmSessions' = [cmSessions EXCEPT ![s].status = "failed"]
                /\ cmOut' = {Emit("session:started", s),
                             Emit("session:failed", s),
                             Out("throw", "Unknown strategy", c, s, <<>>)}
                /\ UNCHANGED cmCalls
        /\ UNCHANGED orchVars

\* the try block ends normally: the session is completed with the results
SessionCompleted(c, settled, results, events) ==
    LET s == cmCalls[c].session
    IN  /\ cmSessions' = [cmSessions EXCEPT ![s].status = "completed",
                                            ![s].results = results]
        /\ cmCalls' = [cmCalls EXCEPT ![c].pc = "returned",
                                      ![c].results = results,
                                      ![c].settled = settled,
                                      ![c].pending = {}]
        /\ cmOut' = events \cup {Emit("session:completed", s),
                                 Out("return", "results", c, s, results)}

\* the catch block: the session is failed and the error is thrown again
SessionFailed(c, settled, message) ==
    LET s == cmCalls[c].session
    IN  /\ cmSessions' = [cmSessions EXCEPT ![s].status = "failed"]
        /\ cmCalls' = [cmCalls EXCEPT ![c].pc = "thrown",
                                      ![c].settled = settled,
                                      ![c].pending = cmCalls[c].pending \
                                          {settled[Len(settled)].req}]
        /\ cmOut' = {Emit("session:failed", s),
                     Out("throw", message, c, s, <<>>)}

Settle(call, j, outcome) ==
    Append(call.settled, [req |-> j, outcome |-> outcome])

\* `await agent.execute(request)` throws when the agent's promise rejects; a
\* response with success false is a value like any other
Aborts_OnFailure(outcome) == outcome # "success"

Aborts(outcome) == outcome = "throw"

leadAgent_Last(agents) == agents[Len(agents)]

leadAgent(agents) == agents[1]

\* executeConsensus, phase 1, is a for loop that awaits each agent.execute:
\* the calls in flight when the loop first suspends
firstAnalyses_Concurrent(agents) == 1..Len(agents)

firstAnalyses(agents) == 1..1

\* the strategy resumes after `await this.getTask` and issues its first
\* agent call: the first agent's in sequential and consensus, every agent's
\* in parallel (each mapped async function runs up to its own await)
GetTask(c) ==
    LET call == cmCalls[c]
        s == call.session
        agents == cmSessions[s].agents
        strategy == cmSessions[s].strategy
        task == getTask(cmSessions[s].taskId)
    IN  /\ call.pc = "getTask"
        /\ cmCalls' = [cmCalls EXCEPT ![c] =
              CASE strategy = "sequential" ->
                     [call EXCEPT !.pc = "sequential", !.i = 1,
                        !.task = task,
                        !.requests = <<Request(task, agents[1], None,
                                               "initiator", Nothing, <<>>)>>,
                        !.pending = {1}]
                [] strategy = "parallel" ->
                     [call EXCEPT !.pc = "parallel",
                        !.task = task,
                        !.requests = [j \in 1..Len(agents) |->
                                        Request(task, agents[j], "parallel",
                                                None, Nothing, <<>>)],
                        !.pending = 1..Len(agents)]
                [] strategy = "consensus" ->
                     [call EXCEPT !.pc = "analysis", !.i = 1,
                        !.task = task,
                        !.requests = [j \in firstAnalyses(agents) |->
                                        Request(task, agents[j], "analysis",
                                                None, Nothing, <<>>)],
                        !.pending = firstAnalyses(agents)]]
        /\ cmOut' = CASE strategy = "sequential" ->
                            {StepEvent("step:started", s, agents[1])}
                      [] strategy = "parallel" ->
                            {StepEvent("step:started", s, agents[j]) :
                                j \in 1..Len(agents)}
                      [] strategy = "consensus" -> {}
        /\ UNCHANGED <<cmSessions, orchVars>>

\* executeSequential: the agent call of step i returns or throws
executeSequential(c, outcome) ==
    LET call == cmCalls[c]
        s == call.session
        agents == cmSessions[s].agents
        i == call.i
        ok == outcome = "success"
        results == IF ok
                   THEN Append(call.results,
                               Result(agents[i], "", Output(agents[i], i)))
                   ELSE call.results
        previousResult == IF ok THEN Output(agents[i], i)
                          ELSE call.previousResult
        completed == IF ok THEN {StepEvent("step:completed", s, agents[i])}
                     ELSE {}
    IN  /\ call.pc = "sequential"
        /\ IF Aborts(outcome)
           THEN SessionFailed(c, Settle(call, i, outcome), "agent error")
           ELSE IF i < Len(agents)
           THEN /\ cmCalls' = [cmCalls EXCEPT ![c] =
                      [call EXCEPT !.i = i + 1, !.results = results,
                         !.previousResult = previousResult,
                         !.requests = Append(call.requests,
                             Request(call.task, agents[i + 1], None,
                                     "reviewer", previousResult, <<>>)),
                         !.pending = {i + 1},
                         !.settled = Settle(call, i, outcome)]]
                /\ cmOut' = completed \cup
                              {StepEvent("step:started", s, agents[i + 1])}
                /\ UNCHANGED cmSessions
           ELSE SessionCompleted(c, Settle(call, i, outcome), results,
                                 completed)
        /\ UNCHANGED orchVars

\* Promise.all(agentPromises) filtered: the successful agents' results in the
\* order of session.agents
parallelResults_Unfiltered(agents, succeeded, j) ==
    [k \in 1..Len(agents) |-> Result(agents[k], "", Output(agents[k], k))]

RECURSIVE parallelResults_Reversed(_, _, _)
parallelResults_Reversed(agents, succeeded, j) ==
    IF j > Len(agents) THEN <<>>
    ELSE parallelResults_Reversed(agents, succeeded, j + 1)
         \o (IF j \in succeeded
             THEN <<Result(agents[j], "", Output(agents[j], j))>>
             ELSE <<>>)

RECURSIVE parallelResults(_, _, _)
parallelResults(agents, succeeded, j) ==
    IF j > Len(agents) THEN <<>>
    ELSE (IF j \in succeeded
          THEN <<Result(agents[j], "", Output(agents[j], j))>>
          ELSE <<>>) \o parallelResults(agents, succeeded, j + 1)

Succeeded(settled) ==
    {settled[n].req : n \in {m \in DOMAIN settled :
                                settled[m].outcome = "success"}}

\* executeParallel: the agent call of agent j returns or throws.  A throw
\* rejects Promise.all at once; the calls still in flight are abandoned.
executeParallel(c, j, outcome) ==
    LET call == cmCalls[c]
        s == call.session
        agents == cmSessions[s].agents
        settled == Settle(call, j, outcome)
        results == parallelResults(agents, Succeeded(settled), 1)
    IN  /\ call.pc = "parallel"
        /\ j \in call.pending
        /\ IF Aborts(outcome)
           THEN SessionFailed(c, settled, "agent error")
           ELSE IF call.pending # {j}
           THEN /\ cmCalls' = [cmCalls EXCEPT ![c] =
                      [call EXCEPT !.pending = call.pending \ {j},
                                   !.settled = settled]]
                /\ cmOut' = {}
                /\ UNCHANGED cmSessions
           ELSE SessionCompleted(c, settled, results,
                    {StepEvent("step:completed", s, agents[k]) :
                        k \in Succeeded(settled)})
        /\ UNCHANGED orchVars

\* executeConsensus, phase 1: the analysis call of agent i returns or throws;
\* after the last one the lead agent's consensus call is issued
executeConsensusAnalysis(c, outcome) ==
    LET call == cmCalls[c]
        s == call.session
        agents == cmSessions[s].agents
        i == call.i
        analyses == IF outcome = "success"
                    THEN Append(call.analyses,
                                Result(agents[i], "", Output(agents[i], i)))
                    ELSE call.analyses
    IN  /\ call.pc = "analysis"
        /\ IF Aborts(outcome)
           THEN SessionFailed(c, Settle(call, i, outcome), "agent error")
           ELSE /\ cmCalls' = [cmCalls EXCEPT ![c] =
                      IF i < Len(agents)
                      THEN [call EXCEPT !.i = i + 1, !.analyses = analyses,
                              !.requests = Append(call.requests,
                                  Request(call.task, agents[i + 1],
                                          "analysis", None, Nothing, <<>>)),
                              !.pending = {i + 1},
                              !.settled = Settle(call, i, outcome)]
                      ELSE [call EXCEPT !.pc = "consensus", !.i = i + 1,
                              !.analyses = analyses, !.results = analyses,
                              !.requests = Append(call.requests,
                                  Request(call.task, leadAgent(agents),
                                          "consensus", None, Nothing,
                                          analyses)),
                              !.pending = {i + 1},
                              !.settled = Settle(call, i, outcome)]]
                /\ cmOut' = {}
                /\ UNCHANGED cmSessions
        /\ UNCHANGED orchVars

\* executeConsensus, phase 2: the lead agent's consensus call returns or throws
executeConsensusSynthesis(c, outcome) ==
    LET call == cmCalls[c]
        s == call.session
        lead == leadAgent(cmSessions[s].agents)
        settled == Settle(call, call.i, outcome)
        results == IF outcome = "success"
                   THEN Append(call.results,
                               Result(lead, "(Consensus)",
                                      Output(lead, call.i)))
                   ELSE call.results
    IN  /\ call.pc = "consensus"
        /\ IF Aborts(outcome)
           THEN SessionFailed(c, settled, "agent error")
           ELSE SessionCompleted(c, settled, results, {})
        /\ UNCHANGED orchVars

NextCollab ==
    \/ \E task \in CollabTasks, strategy \in StrategyInputs :
          createCollaborationSession(task, strategy)
    \/ \E s \in SessionIds : executeCollaborationSession(s)
    \/ \E c \in CallIds : GetTask(c)
    \/ \E c \in CallIds, o \in AgentOutcomes : executeSequential(c, o)
    \/ \E c \in CallIds, j \in 1..MaxCollabAgents, o \in AgentOutcomes :
          executeParallel(c, j, o)
    \/ \E c \in CallIds, o \in AgentOutcomes : executeConsensusAnalysis(c, o)
    \/ \E c \in CallIds, o \in AgentOutcomes : executeConsensusSynthesis(c, o)

SpecCollab == InitCollab /\ [][NextCollab]_vars

(***************************************************************************)
(* Properties                                                              *)
(***************************************************************************)
Status(t) == tasks[t].status

Executing(t) == InFlight(t) # {}

ReturnedNull(t) == [task |-> t, value |-> "null"] \in returned

\* C1: at most one executeTask call per task id is in flight; a call made
\* while another call for the same id is in flight starts nothing and
\* returns null, leaving the task's row, the execution-lock set, the
\* running-task map and the calls in flight (hence the agents) untouched.
C1_AtMostOneExecution ==
    /\ [](\A t \in TaskIds : Cardinality(InFlight(t)) <= 1)
    /\ [][\A t \in TaskIds :
            Executing(t) =>
                /\ InFlight(t)' \subseteq InFlight(t)
                /\ ReturnedNull(t)' =>
                      /\ tasks' = tasks
                      /\ executionLock' = executionLock
                      /\ runningTasks' = runningTasks
                      /\ exec' = exec]_vars

C1_Witness ==
    /\ ReturnedNull(1)
    /\ exec[1][1].pc = "r_call"
    /\ 1 \in executionLock

\* C2: a task's status changes only along pending -> assigned ->
\* in_progress -> completed | failed, or in_progress -> pending and
\* pending -> in_progress around a retry (the call has an attempt behind
\* it); in_progress is never entered first without assigned.
AllowedEdges ==
    { <<"pending", "assigned">>, <<"assigned", "in_progress">>,
      <<"in_progress", "completed">>, <<"in_progress", "failed">>,
      <<"in_progress", "pending">> }

C2_StatusEdges ==
    [][\A t \in TaskIds :
         (Status(t) # "absent" /\ Status(t)' # Status(t)) =>
            \/ <<Status(t), Status(t)'>> \in AllowedEdges
            \/ /\ Status(t) = "pending" /\ Status(t)' = "in_progress"
               /\ \E k \in Slots : exec[t][k].attempt > 0]_vars

\* C3: once completed or failed, a task's status never changes again.
C3_TerminalStatus ==
    [][\A t \in TaskIds :
         Status(t) \in {"completed", "failed"} => Status(t)' = Status(t)]_vars

\* C4: the scheduling pass starts executeTask only for a task all of whose
\* dependencies exist and are completed, and a step of the pass changes no
\* task's status, so a task with an incomplete dependency is left pending
\* by the pass.
ScheduledNow(t) ==
    \E k \in Slots : /\ exec[t][k].pc = "idle"
                     /\ exec'[t][k].pc # "idle"
                     /\ exec'[t][k].origin = "scheduler"

C5_LeavesPendingWithDependenciesDone ==
    [][\A t \in TaskIds :
         (Status(t) = "pending" /\ Status(t)' # "pending") =>
            \A d \in tasks[t].dependencies :
                d \in TaskIds /\ Status(d) = "completed"]_vars

\* C6: a single-agent execution calls the agent at most 3 times and not
\* again after a success; the successful attempt's output is committed with
\* status completed and the task then has no error; after 3 failed attempts
\* the task is failed with the third attempt's error.
C6_RetryOutcome ==
    /\ [](\A t \in TaskIds, k \in Slots :
            /\ exec[t][k].calls <= 3
            /\ exec[t][k].pc \in {"r_commit", "r_done"} =>
                  exec[t][k].calls = exec[t][k].attempt + 1)
    /\ [][\A t \in TaskIds, k \in Slots :
            /\ (exec[t][k].pc = "r_commit" /\ exec'[t][k].pc = "r_done") =>
                  /\ Status(t)' = "completed"
                  /\ tasks'[t].output = <<"result", exec[t][k].attempt>>
                  /\ tasks'[t].error = Nothing
            /\ (exec[t][k].pc = "r_fail" /\ exec'[t][k].pc = "r_faildone") =>
                  /\ Status(t)' = "failed"
                  /\ exec[t][k].calls = 3
                  /\ tasks'[t].error = <<"error", 2>>]_vars

\* C7: in a single-agent execution no delay precedes attempt 1, the delay
\* before attempt 2 is 1000 ms and before attempt 3 is 2000 ms, and after
\* the third failure there is no further delay or attempt.
DelaysBefore(n) == SubSeq(<<1000, 2000>>, 1, n)

C7_DelaySequence ==
    \A t \in TaskIds, k \in Slots :
        LET e == exec[t][k]
        IN  /\ e.pc \in {"r_inprog", "r_call", "r_commit", "r_done", "r_reset"} =>
                 /\ e.attempt <= 2
                 /\ e.delays = DelaysBefore(e.attempt)
            /\ e.pc = "r_call" => e.calls = e.attempt + 1
            /\ e.pc = "r_sleep" =>
                 /\ e.attempt <= 1
                 /\ e.delays = DelaysBefore(e.attempt + 1)
            /\ e.pc \in {"r_fail", "r_faildone"} =>
                 /\ e.delays = <<1000, 2000>>
                 /\ e.calls = 3

C7_Witness ==
    /\ exec[1][1].pc = "r_faildone"
    /\ exec[1][1].delays = <<1000, 2000>>
    /\ exec[1][1].calls = 3

\* C8 as stated: the delay awaited before attempt k (0-indexed, k >= 1) is
\* min(1000 * 2^k, 30000) ms.
C8_DelayFormulaAsStated ==
    \A t \in TaskIds, k \in Slots :
        exec[t][k].pc = "r_sleep" =>
            LET n == exec[t][k].attempt + 1
            IN  exec[t][k].delays[Len(exec[t][k].delays)]
                    = Min(1000 * 2^n, 30000)

\* C8 amended: the delay awaited before attempt k (0-indexed, k >= 1) is
\* min(1000 * 2^(k-1), 30000) ms.
C8_DelayFormula ==
    \A t \in TaskIds, k \in Slots :
        exec[t][k].pc = "r_sleep" =>
            LET n == exec[t][k].attempt + 1
            IN  /\ n >= 1
                /\ Len(exec[t][k].delays) = n
                /\ exec[t][k].delays[n] = Min(1000 * 2^(n - 1), 30000)

C8_Witness ==
    /\ exec[1][1].pc = "r_sleep"
    /\ exec[1][1].attempt = 1
    /\ exec[1][1].delays = <<1000, 2000>>

\* C9: never more than MAX_CONCURRENT_TASKS executions dispatched by the
\* scheduler are in flight.
ScheduledExecutions ==
    {t \in TaskIds : \E k \in Slots : /\ exec[t][k].pc # "idle"
                                      /\ exec[t][k].origin = "scheduler"}

C9_ConcurrencyCeiling ==
    Cardinality(ScheduledExecutions) <= MAX_CONCURRENT_TASKS

\* C10: the execution-lock set is exactly the set of ids with an
\* executeTask call in flight: every step that starts a call adds its id
\* and every return or throw of a call removes it.
C10_LockIsInFlightSet ==
    executionLock = {t \in TaskIds : Executing(t)}

C10_Witness ==
    /\ [task |-> 1, value |-> "throw: No suitable agent found"] \in returned
    /\ Status(1) = "pending"
    /\ 1 \notin executionLock

\* C11 as stated: executeTask on an unknown id throws 'Task not found' and
\* on any task for which the registry scores no agent throws 'No suitable
\* agent found', at once, with no agent call, no delay and the task's row
\* untouched.
Throws(t, message) == [task |-> t, value |-> message]

FirstResumption(t, k) == exec[t][k].pc = "find" /\ exec'[t][k] # exec[t][k]

C11_ErrorsAsStated ==
    [][\A t \in TaskIds, k \in Slots :
         FirstResumption(t, k) =>
            /\ tasks[t] = NoTask =>
                  returned' = {Throws(t, "throw: Task not found")}
            /\ (tasks[t] # NoTask /\ nAgents = 0) =>
                  /\ returned' = {Throws(t, "throw: No suitable agent found")}
                  /\ tasks' = tasks]_vars

\* C11 amended: executeTask on an unknown id throws 'Task not found', and on
\* a task routed to single-agent execution while the registry holds no agent
\* throws 'No suitable agent found'; either error leaves the call at its
\* first resumption, with no agent call made, no delay awaited and the
\* task's row untouched, and neither error comes from anywhere else.
SingleAgentRoute(t, k) ==
    ~(exec[t][k].useCollaboration \/ requiresCollaboration(tasks[t]))

C11_ImmediateErrors ==
    [][\A t \in TaskIds :
         /\ \A k \in Slots :
              FirstResumption(t, k) =>
                 /\ exec[t][k].calls = 0
                 /\ exec[t][k].delays = <<>>
                 /\ tasks[t] = NoTask =>
                       /\ returned' = {Throws(t, "throw: Task not found")}
                       /\ exec'[t][k] = IdleExec
                       /\ tasks' = tasks
                 /\ (tasks[t] # NoTask /\ nAgents = 0
                                       /\ SingleAgentRoute(t, k)) =>
                       /\ returned' =
                            {Throws(t, "throw: No suitable agent found")}
                       /\ exec'[t][k] = IdleExec
                       /\ tasks' = tasks
         /\ (\/ Throws(t, "throw: Task not found") \in returned'
             \/ Throws(t, "throw: No suitable agent found") \in returned') =>
               \E k \in Slots : FirstResumption(t, k)]_vars

C11_Witness ==
    /\ Throws(2, "throw: Task not found") \in returned
    /\ tasks[2] = NoTask
    /\ 2 \notin executionLock

\* C12: every session in the session map holds the top-ranked candidates of
\* the registry's scoring in rank order, 3 of them at most for consensus and
\* 2 at most for any other strategy, and never fewer than 2; a session
\* enters the map in status planning with no results; when fewer than 2
\* agents are selected createCollaborationSession throws and stores nothing.
AgentCap(strategy) == IF strategy = "consensus" THEN 3 ELSE 2

Stored(s) == cmSessions[s] # NoCmSession

NeedTwoAgents ==
    Out("throw", "Need at least 2 agents for collaboration", 0, 0, <<>>)

C12_SessionAgents ==
    /\ [](\A s \in SessionIds :
            Stored(s) =>
               LET agents == cmSessions[s].agents
               IN  /\ Len(agents) >= 2
                   /\ Len(agents) = Min(AgentCap(cmSessions[s].strategy),
                                        nAgents)
                   /\ \A j \in 1..Len(agents) :
                         agents[j] = findBestAgentForTask(nAgents)[j])
    /\ [](nAgents < 2 => \A s \in SessionIds : ~Stored(s))
    /\ [][/\ \A s \in SessionIds :
               (~Stored(s) /\ Stored(s)') =>
                  /\ cmSessions'[s].status = "planning"
                  /\ cmSessions'[s].results = <<>>
                  /\ Out("return", "session", 0, s, <<>>) \in cmOut'
          /\ NeedTwoAgents \in cmOut' =>
                /\ nAgents < 2
                /\ cmSessions' = cmSessions]_vars

C12_Witness ==
    /\ nAgents = 3
    /\ Stored(1)
    /\ cmSessions[1].strategy = "consensus"
    /\ cmSessions[1].agents = <<1, 2, 3>>
    /\ cmSessions[1].status = "planning"

\* C13: a session's status changes only forward along planning ->
\* executing -> completed | failed (planning -> failed when the strategy is
\* rejected in the call's first synchronous stretch), and a completed or
\* failed session never changes status again, whatever calls of
\* executeCollaborationSession are made.
SessionEdges ==
    { <<"planning", "executing">>, <<"planning", "failed">>,
      <<"executing", "completed">>, <<"executing", "failed">> }

C13_SessionStatusEdges ==
    [][\A s \in SessionIds :
         (Stored(s) /\ cmSessions'[s].status # cmSessions[s].status) =>
             <<cmSessions[s].status, cmSessions'[s].status>> \in SessionEdges]_vars

(***************************************************************************)
(* What the record of an executeCollaborationSession call says             *)
(***************************************************************************)
StrategyCalls(strategy) ==
    {c \in CallIds : /\ cmCalls[c].pc \notin {"idle", "getTask"}
                     /\ cmSessions[cmCalls[c].session].strategy = strategy}

AgentsOf(c) == cmSessions[cmCalls[c].session].agents

InFlightCall(c) == cmCalls[c].pc \notin {"idle", "returned", "thrown"}

\* the request indices among the first n settled ones that succeeded, in the
\* order in which they settled
RECURSIVE SuccessOrder(_, _)
SuccessOrder(settled, n) ==
    IF n = 0 THEN <<>>
    ELSE SuccessOrder(settled, n - 1)
         \o (IF settled[n].outcome = "success" THEN <<settled[n].req>>
             ELSE <<>>)

ResultsOf(agents, order) ==
    [k \in 1..Len(order) |->
        Result(agents[order[k]], "", Output(agents[order[k]], order[k]))]

\* the output of the last of the steps before step j that succeeded
LastOutput(agents, settled, j) ==
    LET S == {m \in 1..(j - 1) : settled[m].outcome = "success"}
        m == CHOOSE x \in S : \A y \in S : y <= x
    IN  IF S = {} THEN Nothing ELSE Output(agents[m], m)

JustReturned(c) == cmCalls[c].pc # "returned" /\ cmCalls'[c].pc = "returned"

CommitsResults(c, strategy) ==
    (JustReturned(c) /\ cmSessions[cmCalls[c].session].strategy = strategy) =>
        /\ cmSessions'[cmCalls[c].session].status = "completed"
        /\ cmSessions'[cmCalls[c].session].results = cmCalls'[c].results

\* C14: a sequential call invokes the agents one at a time in session.agents
\* order, each call issued when the one before has returned; the first
\* request has role initiator and no previous result, every later one role
\* reviewer and the output of the latest earlier step that succeeded (none
\* if there is none); the results are the steps that succeeded, in call
\* order, and they are what the session holds when the call returns.
C14_SequentialOrder ==
    /\ [](\A c \in StrategyCalls("sequential") :
            LET call == cmCalls[c]
                agents == AgentsOf(c)
                n == Len(call.requests)
                done == Len(call.settled)
            IN  /\ n \in 1..Len(agents)
                /\ \A j \in 1..n : call.requests[j].agent = agents[j]
                /\ \A m \in 1..done : call.settled[m].req = m
                /\ IF InFlightCall(c)
                   THEN done = n - 1 /\ call.pending = {n}
                   ELSE done = n /\ call.pending = {}
                /\ call.requests[1].role = "initiator"
                /\ call.requests[1].previousResult = Nothing
                /\ \A j \in 2..n :
                      /\ call.requests[j].role = "reviewer"
                      /\ call.requests[j].previousResult =
                            LastOutput(agents, call.settled, j)
                /\ call.pc # "thrown" =>
                      call.results =
                          ResultsOf(agents, SuccessOrder(call.settled, done))
                /\ call.pc = "returned" => n = Len(agents))
    /\ [][\A c \in CallIds : CommitsResults(c, "sequential")]_vars

C14_Witness ==
    \E c \in StrategyCalls("sequential") :
        /\ cmCalls[c].pc = "returned"
        /\ cmCalls[c].requests[2].role = "reviewer"
        /\ cmCalls[c].requests[2].previousResult = Output(1, 1)
        /\ cmCalls[c].results = ResultsOf(<<1, 2>>, <<1, 2>>)
        /\ cmSessions[cmCalls[c].session].results = cmCalls[c].results

\* C15: in a sequential call a step whose agent answers with success false
\* adds no result and does not end the call: the next agent, if there is
\* one, is invoked with the previous result the failed step was given, and
\* the call goes on to return with the session completed; only a throw ends
\* the call otherwise.
FailedSteps(call) ==
    {m \in DOMAIN call.settled : call.settled[m].outcome = "failure"}

C15_SequentialFailureSkipped ==
    /\ [](\A c \in StrategyCalls("sequential") :
            LET call == cmCalls[c]
                agents == AgentsOf(c)
            IN  /\ \A m \in FailedSteps(call) :
                      /\ \A k \in DOMAIN call.results :
                            call.results[k].output # Output(agents[m], m)
                      /\ m < Len(agents) =>
                            /\ Len(call.requests) >= m + 1
                            /\ call.requests[m + 1].agent = agents[m + 1]
                            /\ call.requests[m + 1].previousResult =
                                  call.requests[m].previousResult
                      /\ m = Len(agents) => call.pc = "returned"
                /\ call.pc = "thrown" =>
                      call.settled[Len(call.settled)].outcome = "throw")
    /\ [][\A c \in CallIds :
            (JustReturned(c) /\ FailedSteps(cmCalls'[c]) # {}) =>
                cmSessions'[cmCalls[c].session].status = "completed"]_vars

C15_Witness ==
    \E c \in StrategyCalls("sequential") :
        /\ cmCalls[c].pc = "returned"
        /\ cmCalls[c].settled = << [req |-> 1, outcome |-> "failure"],
                                  [req |-> 2, outcome |-> "success"] >>
        /\ cmCalls[c].results = ResultsOf(<<1, 2>>, <<2>>)
        /\ cmSessions[cmCalls[c].session].status = "completed"

\* C16: a parallel call issues one request per agent of the session in the
\* step in which it starts them, before any has returned; it returns, and
\* the session is completed, only in the step in which the last of the
\* calls returns and none has thrown; the results then hold exactly one
\* entry per agent whose call succeeded (one entry when one of two fails).
SettledRequests(call) == {call.settled[m].req : m \in DOMAIN call.settled}

Successes(call) ==
    {call.settled[m].req :
        m \in {n \in DOMAIN call.settled : call.settled[n].outcome = "success"}}

C16_ParallelFanOut ==
    /\ [](\A c \in StrategyCalls("parallel") :
            LET call == cmCalls[c]
                agents == AgentsOf(c)
            IN  /\ Len(call.requests) = Len(agents)
                /\ \A j \in 1..Len(agents) :
                      /\ call.requests[j].agent = agents[j]
                      /\ call.requests[j].mode = "parallel"
                /\ SettledRequests(call) \cup call.pending = 1..Len(agents)
                /\ SettledRequests(call) \cap call.pending = {}
                /\ Cardinality(SettledRequests(call)) = Len(call.settled)
                /\ call.pc = "returned" =>
                      /\ call.pending = {}
                      /\ \A m \in DOMAIN call.settled :
                            call.settled[m].outcome # "throw"
                      /\ Len(call.results) = Cardinality(Successes(call))
                      /\ {call.results[k].agentId : k \in DOMAIN call.results}
                            = {agents[j] : j \in Successes(call)})
    /\ [][\A c \in CallIds :
            /\ (cmCalls[c].pc = "getTask" /\ cmCalls'[c].pc = "parallel") =>
                  /\ cmCalls'[c].settled = <<>>
                  /\ cmCalls'[c].pending = 1..Len(AgentsOf(c))
            /\ CommitsResults(c, "parallel")
            /\ (JustReturned(c) /\ cmCalls[c].pc = "parallel") =>
                  Cardinality(cmCalls[c].pending) = 1]_vars

C16_Witness ==
    \E c \in StrategyCalls("parallel") :
        /\ cmCalls[c].pc = "returned"
        /\ Len(AgentsOf(c)) = 2
        /\ Cardinality(Successes(cmCalls[c])) = 1
        /\ Len(cmCalls[c].results) = 1
        /\ cmSessions[cmCalls[c].session].status = "completed"
        /\ cmSessions[cmCalls[c].session].results = cmCalls[c].results

\* C17 as stated: the results of a parallel call are in the order in which
\* the agents' calls completed.
C17_CompletionOrder ==
    \A c \in StrategyCalls("parallel") :
        cmCalls[c].pc = "returned" =>
            cmCalls[c].results =
                ResultsOf(AgentsOf(c),
                          SuccessOrder(cmCalls[c].settled,
                                       Len(cmCalls[c].settled)))

\* C17 amended: the results of a parallel call are in the order of
\* session.agents, whatever the order in which the agents' calls completed.
Rank(agents, a) == CHOOSE j \in 1..Len(agents) : agents[j] = a

C17_RankOrder ==
    \A c \in StrategyCalls("parallel") :
        cmCalls[c].pc = "returned" =>
            \A k1, k2 \in DOMAIN cmCalls[c].results :
                k1 < k2 => Rank(AgentsOf(c), cmCalls[c].results[k1].agentId)
                           < Rank(AgentsOf(c), cmCalls[c].results[k2].agentId)

C17_Witness ==
    \E c \in StrategyCalls("parallel") :
        /\ cmCalls[c].pc = "returned"
        /\ cmCalls[c].settled = << [req |-> 2, outcome |-> "success"],
                                  [req |-> 1, outcome |-> "success"] >>
        /\ cmCalls[c].results = ResultsOf(<<1, 2>>, <<1, 2>>)

(***************************************************************************)
(* Consensus calls: phase 1 is requests 1..n, one per agent; the           *)
(* consensus request is request n + 1                                      *)
(***************************************************************************)
Phase1Done(call, n) == IF Len(call.settled) < n THEN Len(call.settled) ELSE n

Analyses(call, agents) ==
    ResultsOf(agents, SuccessOrder(call.settled, Phase1Done(call, Len(agents))))

Synthesis(agents) ==
    Result(agents[1], "(Consensus)", Output(agents[1], Len(agents) + 1))

ConsensusRequests(c) ==
    LET call == cmCalls[c]
        agents == AgentsOf(c)
        n == Len(agents)
    IN  /\ \A j \in 1..Min(n, Len(call.requests)) :
              /\ call.requests[j].agent = agents[j]
              /\ call.requests[j].mode = "analysis"
        /\ \A m \in DOMAIN call.settled : call.settled[m].req = m
        /\ call.analyses = Analyses(call, agents)
        /\ Len(call.requests) = n + 1 =>
              /\ Len(call.settled) >= n
              /\ call.requests[n + 1].agent = agents[1]
              /\ call.requests[n + 1].mode = "consensus"
              /\ call.requests[n + 1].analyses = Analyses(call, agents)
        /\ call.pc = "consensus" => Len(call.requests) = n + 1
        /\ call.pc = "returned" => Len(call.settled) = n + 1

SessionThrows(t, k) ==
    /\ sessions[t][k].status \in {"planning", "executing"}
    /\ sessions'[t][k].status = "failed"

C19_ThrowFailsTask ==
    [][\A t \in TaskIds, k \in Slots :
         /\ SessionThrows(t, k) =>
               /\ exec'[t][k].pc = "c_fail"
               /\ \E h \in handlers' \ handlers :
                     /\ h.task = t
                     /\ h.kind = "failed"
                     /\ h.error = exec'[t][k].lastError
         /\ (/\ sessions[t][k].status = "failed"
             /\ exec[t][k].pc = "c_faildone"
             /\ exec'[t][k].pc = "idle") =>
               /\ Status(t) = "failed"
               /\ tasks[t].error = exec[t][k].lastError]_vars

\* C20: the strategy of every session the orchestrator creates is one of
\* sequential, parallel and consensus; a critical task whose type and
\* description match neither rule gets sequential.
C20_KnownStrategy ==
    \A t \in TaskIds, k \in Slots :
        sessions[t][k] # NoSession =>
            /\ sessions[t][k].strategy \in {"sequential", "parallel", "consensus"}
            /\ (/\ tasks[t].priority = "critical"
                /\ tasks[t].type # "design"
                /\ "architecture" \notin LowerCased(tasks[t].words)
                /\ ~({"frontend", "backend"}
                        \subseteq LowerCased(tasks[t].words))) =>
                  sessions[t][k].strategy = "sequential"

(***************************************************************************)
(* Routing, validation and events                                          *)
(***************************************************************************)
\* C21: executeTask on an existing task goes to the Collaboration Manager
\* exactly when forceCollaboration is true, or the task's stored metadata
\* carries the collaboration flag, or requiresCollaboration(task) is true;
\* otherwise it enters single-agent retry execution.
StoredFlag(t) == "useCollaboration" \in tasks[t].metadata

ToCollaboration(t, k) == exec'[t][k].pc = "c_inprog"

ToSingleAgent(t, k) ==
    \/ exec'[t][k].pc = "r_assign"
    \/ returned' = {Throws(t, "throw: No suitable agent found")}

C21_RoutingAsStated ==
    [][\A t \in TaskIds, k \in Slots :
         (FirstResumption(t, k) /\ tasks[t] # NoTask) =>
            IF \/ exec[t][k].useCollaboration
               \/ StoredFlag(t)
               \/ requiresCollaboration(tasks[t])
            THEN ToCollaboration(t, k)
            ELSE ToSingleAgent(t, k)]_vars

\* C22 as stated: requiresCollaboration(task) is true exactly when the
\* lower-cased description contains a keyword or the priority is critical,
\* so an unforced call on a high-priority task without a keyword is not
\* routed to collaboration; every medium-priority task whose description
\* contains 'review', 'comprehensive' or 'integrate' requires collaboration
\* and its execution creates a sequential session with 2 agents.
HasKeyword(t) == \E w \in tasks[t].words : toLowerCase(w) \in Keywords

ExampleTask(t) ==
    /\ tasks[t] # NoTask
    /\ tasks[t].priority = "medium"
    /\ \E w \in tasks[t].words :
          toLowerCase(w) \in {"review", "comprehensive", "integrate"}

CreatesSession(t, k) == exec[t][k].pc = "c_inprog" /\ exec'[t][k].pc # "c_inprog"

RequiresAsStated(t, k) ==
    /\ tasks[t] # NoTask =>
          requiresCollaboration(tasks[t])
             = (HasKeyword(t) \/ tasks[t].priority = "critical")
    /\ (FirstResumption(t, k) /\ tasks[t] # NoTask
                              /\ ~exec[t][k].useCollaboration) =>
          (ToCollaboration(t, k)
             <=> (HasKeyword(t) \/ tasks[t].priority = "critical"))
    /\ (FirstResumption(t, k) /\ ExampleTask(t)) => ToCollaboration(t, k)

C22_AlwaysSequential ==
    [][\A t \in TaskIds, k \in Slots :
         /\ RequiresAsStated(t, k)
         /\ (CreatesSession(t, k) /\ ExampleTask(t)) =>
               /\ sessions'[t][k].strategy = "sequential"
               /\ Len(sessions'[t][k].agents) = 2]_vars

\* C22 amended: the same, with the sequential session of 2 agents only for
\* an example task whose type is not design and whose description mentions
\* neither 'architecture' nor both 'frontend' and 'backend', and with at
\* least 2 agents registered.
NoOtherRule(t) ==
    /\ tasks[t].type # "design"
    /\ "architecture" \notin LowerCased(tasks[t].words)
    /\ ~({"frontend", "backend"} \subseteq LowerCased(tasks[t].words))

C22_RequiresCollaboration ==
    [][\A t \in TaskIds, k \in Slots :
         /\ RequiresAsStated(t, k)
         /\ (CreatesSession(t, k) /\ ExampleTask(t) /\ NoOtherRule(t)
                                  /\ nAgents >= 2) =>
               /\ sessions'[t][k].strategy = "sequential"
               /\ Len(sessions'[t][k].agents) = 2
               /\ sessions'[t][k].agents = <<1, 2>>]_vars

C22_Witness ==
    \E t \in TaskIds, k \in Slots :
        /\ ExampleTask(t)
        /\ "Review" \in tasks[t].words
        /\ ~exec[t][k].useCollaboration
        /\ ~StoredFlag(t)
        /\ sessions[t][k].strategy = "sequential"
        /\ Len(sessions[t][k].agents) = 2

\* C24: the step that ends an execution with the task completed or failed
\* emits one terminal event for the task, task:completed for completed and
\* task:failed or task:error for failed, the status being committed before
\* the step; no other step emits a terminal event, so an attempt that is
\* retried emits none and an execution emits exactly one.
EndsExecution(t) ==
    \E k \in Slots : exec[t][k].pc # "idle" /\ exec'[t][k].pc = "idle"

EventsFor(t) == {e \in Emitted : e.task = t}

C24_OneTerminalEvent ==
    [][\A t \in TaskIds :
         /\ (EndsExecution(t) /\ tasks[t] # NoTask
                              /\ tasks'[t].status \in {"completed", "failed"}) =>
               /\ Cardinality(EventsFor(t)) = 1
               /\ tasks[t].status = tasks'[t].status
               /\ \A e \in EventsFor(t) :
                     IF tasks[t].status = "completed"
                     THEN e.name = "task:completed"
                     ELSE e.name \in {"task:failed", "task:error"}
         /\ ~EndsExecution(t) => EventsFor(t) = {}]_vars

\* C26: in every reachable state a task has an output only if its status
\* is completed and an error only if its status is failed.
C26_OutputOnlyCompleted ==
    \A t \in TaskIds :
        tasks[t] # NoTask =>
            /\ tasks[t].output # Nothing => tasks[t].status = "completed"
            /\ tasks[t].error # Nothing => tasks[t].status = "failed"

\* C28: createTask with an empty description stores no task: every row that
\* comes into being has a description that is not empty.
C28_EmptyDescriptionRejected ==
    [][\A t \in TaskIds :
         (tasks[t] = NoTask /\ tasks'[t] # NoTask) =>
             tasks'[t].words # {}]_vars

\* C29: when the collaborative execution of a task has failed (the session
\* could not be created for want of 2 agents, or its execution threw), the
\* call goes on to single-agent execution and the task is not marked failed.
CollaborationFailed(t, k) ==
    exec[t][k].pc = "c_fail" /\ exec'[t][k] # exec[t][k]

C29_FallsBackToSingleAgent ==
    [][\A t \in TaskIds, k \in Slots :
         CollaborationFailed(t, k) =>
            /\ ToSingleAgent(t, k)
            /\ tasks'[t].status # "failed"]_vars

\* C30: the running-task map holds only ids of tasks with an execution in
\* flight, so it is empty whenever no execution is in flight.
C30_RunningTasksInFlight ==
    /\ \A t \in runningTasks : InFlight(t) # {}
    /\ (\A t \in TaskIds : InFlight(t) = {}) => Cardinality(runningTasks) = 0

\* C23: in every strategy the prompt of each agent call carries the
\* description of the task the session was created for, and the prompts of
\* a parallel session all carry the same description.
DescriptionOf(taskId) ==
    (CHOOSE task \in CollabTasks : task.id = taskId).description

C23_PromptHasDescription ==
    \A c \in CallIds :
        cmCalls[c].pc # "idle" =>
            LET call == cmCalls[c]
                owner == cmSessions[call.session].taskId
            IN  /\ \A j \in DOMAIN call.requests :
                      call.requests[j].description = DescriptionOf(owner)
                /\ cmSessions[call.session].strategy = "parallel" =>
                      \A j, k \in DOMAIN call.requests :
                          call.requests[j].description
                             = call.requests[k].description

\* C25: every step:started event of a session is followed by one
\* step:completed or step:failed event for the same agent before the
\* session:completed or session:failed event: in a sequential session when
\* the agent's call settles, in a parallel session when the last call
\* settles or one throws.
StepSettled(s, agent) ==
    \E name \in {"step:completed", "step:failed"} :
        StepEvent(name, s, agent) \in cmOut'

C25_StepEventsPaired ==
    [][\A c \in CallIds :
         LET call == cmCalls[c]
             s == call.session
             agents == cmSessions[s].agents
         IN  /\ (call.pc = "sequential" /\ cmCalls'[c] # call) =>
                   StepSettled(s, agents[call.i])
             /\ (call.pc = "parallel"
                   /\ cmCalls'[c].pc \in {"returned", "thrown"}) =>
                   \A j \in 1..Len(agents) : StepSettled(s, agents[j])]_vars

\* C27: the task queue is always ordered by priority, critical before high
\* before medium before low, and among tasks of equal priority by creation
\* time; the pending tasks a scheduling pass takes are all the pending
\* tasks of the queue in that order, and the pass executes them in it.
Rank5(p) == IF p = "critical" THEN 1 ELSE IF p = "high" THEN 2
            ELSE IF p = "medium" THEN 3 ELSE 4

InQueueOrder(a, b) ==
    \/ Rank5(a.priority) < Rank5(b.priority)
    \/ (a.priority = b.priority /\ a.id < b.id)

Ordered(queue) ==
    \A m, n \in DOMAIN queue : m < n => InQueueOrder(queue[m], queue[n])

C32_OutputSynthesized ==
    \A t \in TaskIds :
        (/\ tasks[t] # NoTask
         /\ tasks[t].status = "completed"
         /\ InFlight(t) = {}
         /\ \A h \in handlers : h.task # t) =>
             tasks[t].output # <<"raw">>

\* C33: a collaborative execution marks its task completed only if at least
\* one agent call of its session succeeded.
C33_CompletedNeedsSuccess ==
    [][\A t \in TaskIds, k \in Slots :
         (exec[t][k].pc = "c_commit" /\ exec'[t][k].pc = "c_done") =>
             sessions[t][k].results > 0]_vars

\* C37 as stated: in consensus phase 1 all analysis calls are issued
\* concurrently, as in parallel: once the phase has started, the call of
\* every agent of the session has been issued.
Phase1(c) == cmCalls[c].pc = "analysis"

C37_Phase1Concurrent ==
    \A c \in CallIds :
        Phase1(c) => Len(cmCalls[c].requests) = Len(AgentsOf(c))

\* C37 amended: in consensus phase 1 the analysis calls are issued one at a
\* time in the order of session.agents: exactly one call is in flight, and
\* the call of a later agent is issued only after the calls of all earlier
\* agents have returned.
C37_Phase1OneAtATime ==
    \A c \in CallIds :
        Phase1(c) =>
            LET call == cmCalls[c]
                n == Len(call.requests)
            IN  /\ call.pending = {n}
                /\ call.i = n
                /\ SettledRequests(call) = 1..(n - 1)
                /\ \A j \in 1..n :
                      /\ call.requests[j].agent = AgentsOf(c)[j]
                      /\ call.requests[j].mode = "analysis"
                      /\ call.requests[j].analyses = <<>>

C37_Witness ==
    \E c \in CallIds :
        /\ Phase1(c)
        /\ Len(AgentsOf(c)) = 3
        /\ Len(cmCalls[c].requests) = 2
        /\ cmCalls[c].settled[1].outcome = "success"

\* C38: a scheduling pass of the in-memory orchestrator calls executeTask
\* only on a task that this.tasks holds with status pending, so no call
\* throws 'Task not found' and no execution starts on a task whose status in
\* this.tasks is completed or failed.
StartsExecution(id) ==
    taskObjects[id].executing = None /\ taskObjects'[id].executing # None

C38_DispatchesPendingOnly ==
    [][\A id \in QueueIds :
         /\ Throws(id, "throw: Task not found") \notin returned'
         /\ StartsExecution(id) =>
               /\ taskObjects[id].map # None
               /\ MapStatus(taskQueue, taskObjects, id) = "pending"]_vars

\* C36: every executeTask call returns; at its return the execution lock is
\* released and the task is completed or failed, unless the call raised one
\* of the immediate errors; a single-agent execution has invoked the agent
\* at most 3 times and waited out at most 2 backoff delays by then.
Returns(t, k) == exec[t][k].pc # "idle" /\ exec'[t][k].pc = "idle"

ImmediateErrors ==
    {"throw: Task not found", "throw: No suitable agent found"}

C36_ExecuteTaskReturns ==
    /\ \A t \in TaskIds, k \in Slots :
          (exec[t][k].pc # "idle") ~> (exec[t][k].pc = "idle")
    /\ [][\A t \in TaskIds, k \in Slots :
            Returns(t, k) =>
               /\ t \notin executionLock'
               /\ \E r \in returned' :
                     /\ r.task = t
                     /\ \/ r.value \in ImmediateErrors
                        \/ tasks'[t].status \in {"completed", "failed"}
               /\ exec[t][k].calls <= maxAttempts
               /\ Len(exec[t][k].delays) <= maxAttempts - 1]_vars

C36_Witness ==
    \E t \in TaskIds :
        /\ Throws(t, "failure result") \in returned
        /\ tasks[t].status = "failed"
        /\ InFlight(t) = {}
        /\ t \notin executionLock

\* C34: a scheduling pass calls executeTask only on a task whose status is
\* pending when the call is made, also when the pass has awaited dependency
\* lookups since it read the list of pending tasks.
PassStep == pass.pc # "idle" /\ pass' # pass

PassCalls(t) ==
    \/ \E k \in Slots : exec[t][k].pc = "idle" /\ exec'[t][k].pc = "find"
    \/ Throws(t, "null") \in returned'

C34_DispatchesPending ==
    [][PassStep =>
         \A t \in TaskIds : PassCalls(t) => tasks[t].status = "pending"]_vars

\* C31: while a single-agent execution of a task waits out a retry backoff
\* (the status was reset to pending, so the pass finds the task among the
\* pending tasks) the task's id is in the execution lock, and a scheduling
\* pass that comes to the task skips it: the step of the pass makes no
\* executeTask call on it, starts no execution of it and leaves the waiting
\* execution, its agent-call count included, as it is.
Backoff(t) == \E k \in Slots : exec[t][k].pc = "r_sleep"

C31_BackoffSkipped ==
    /\ [](\A t \in TaskIds : Backoff(t) => t \in executionLock)
    /\ [][PassStep =>
            \A t \in TaskIds :
                Backoff(t) => ~PassCalls(t) /\ exec'[t] = exec[t]]_vars

C31_Witness ==
    \E t \in TaskIds :
        /\ Backoff(t)
        /\ tasks[t].status = "pending"
        /\ pass.pc = "deps"
        /\ \E i \in 2..Len(pass.queue) : pass.queue[i] = t
        /\ ~AtCapacity(runningTasks)

\* C35: with an agent available, the interval timer firing for ever and
\* every agent call and every other await settling, a pending task whose
\* dependencies are all completed is eventually dispatched by a scheduling
\* pass, however many tasks have completed before.
Runnable(t) ==
    /\ tasks[t] # NoTask
    /\ tasks[t].status = "pending"
    /\ DependenciesCompleted(tasks, t)
    /\ getAvailableAgents(nAgents, TRUE) # {}

Dispatched(t) ==
    \E k \in Slots : exec[t][k].pc # "idle" /\ exec[t][k].origin = "scheduler"

C35_EventuallyDispatched ==
    \A t \in TaskIds : Runnable(t) ~> Dispatched(t)

====
